---- MODULE Spec2Model ----
(***************************************************************************)
(* Model of the double-pendulum notebook (src/double_pendulum.ipynb):      *)
(* the derivative callback, the two odeint integration runs, the Cartesian *)
(* projection cell and the FuncAnimation frame loop.                       *)
(*                                                                         *)
(* Number domain.  A float is a record: Fin(n) is the finite value n on an *)
(* integer grid, NaN and Inf(s) are the IEEE specials.  Angles are counted *)
(* in quarter turns (pi/2), so that np.sin and np.cos are exact on the     *)
(* grid; divisions round toward zero.  Python-float division raises on a   *)
(* zero divisor, numpy-float division returns inf or nan.                  *)
(*                                                                         *)
(* odeint is the library's solver; it is modelled by its driving loop: one *)
(* output row per time sample, the first row a copy of y0, and for every   *)
(* later sample one call of the derivative callback and one explicit step. *)
(***************************************************************************)
EXTENDS Integers, Sequences, FiniteSets, TLC

VARIABLES args, t, y0, pc, err, phase, mem, ret, ncalls, yout, sol,
          pos, artists, started, i, frames

vars == <<args, t, y0, pc, err, phase, mem, ret, ncalls, yout, sol,
          pos, artists, started, i, frames>>

\* ---------------------------------------------------------------- bounds
MaxLen == 3
MaxTime == 2

\* ------------------------------------------------------- float arithmetic
Fin(n) == [fin |-> TRUE, v |-> n]
NaN == [fin |-> FALSE, v |-> 0]
Inf(s) == [fin |-> FALSE, v |-> s]

IsNaN(a) == ~a.fin /\ a.v = 0
IsFinite(a) == a.fin

Sgn(n) == IF n > 0 THEN 1 ELSE IF n < 0 THEN -1 ELSE 0
Abs(n) == IF n < 0 THEN -n ELSE n
\* the sign of a float that is not nan
FSgn(a) == IF a.fin THEN Sgn(a.v) ELSE a.v
\* integer quotient rounded toward zero
Quot(a, b) == Sgn(a) * Sgn(b) * (Abs(a) \div Abs(b))

\* The operations are functions on Float: an application evaluates its
\* arguments once, as the machine does.
Float == [fin : BOOLEAN, v : Int]

fnegF[a \in Float] ==
    IF a.fin THEN Fin(-a.v) ELSE IF IsNaN(a) THEN NaN ELSE Inf(-a.v)
fneg(a) == fnegF[a]

faddF[a \in Float, b \in Float] ==
    IF IsNaN(a) \/ IsNaN(b) THEN NaN
    ELSE IF a.fin /\ b.fin THEN Fin(a.v + b.v)
    ELSE IF a.fin THEN b
    ELSE IF b.fin THEN a
    ELSE IF a.v = b.v THEN a ELSE NaN
fadd(a, b) == faddF[a, b]

fsub(a, b) == faddF[a, fnegF[b]]

fmulF[a \in Float, b \in Float] ==
    IF IsNaN(a) \/ IsNaN(b) THEN NaN
    ELSE IF a.fin /\ b.fin THEN Fin(a.v * b.v)
    ELSE IF FSgn(a) = 0 \/ FSgn(b) = 0 THEN NaN
    ELSE Inf(FSgn(a) * FSgn(b))
fmul(a, b) == fmulF[a, b]

\* numpy float64 division: a zero divisor gives inf or nan, never an error
fdivF[a \in Float, b \in Float] ==
    IF IsNaN(a) \/ IsNaN(b) THEN NaN
    ELSE IF ~a.fin /\ ~b.fin THEN NaN
    ELSE IF ~b.fin THEN Fin(0)
    ELSE IF ~a.fin THEN Inf(IF b.v < 0 THEN -a.v ELSE a.v)
    ELSE IF b.v = 0 THEN (IF a.v = 0 THEN NaN ELSE Inf(Sgn(a.v)))
    ELSE Fin(Quot(a.v, b.v))
fdiv(a, b) == fdivF[a, b]

\* sin and cos of k quarter turns; of a non-finite angle, nan
SinTab == <<0, 1, 0, -1>>
CosTab == <<1, 0, -1, 0>>
np_sinF[a \in Float] == IF a.fin THEN Fin(SinTab[(a.v % 4) + 1]) ELSE NaN
np_cosF[a \in Float] == IF a.fin THEN Fin(CosTab[(a.v % 4) + 1]) ELSE NaN
np_sin(a) == np_sinF[a]
np_cos(a) == np_cosF[a]

VecFinite(y) == \A j \in DOMAIN y : IsFinite(y[j])

\* ------------------------------------------------------------ the inputs
Runs == {"base", "small"}
L1Values == {0, 1}
L2Values == {0, 1, 2}
m1Values == {0, 1, 2}
m2Values == {-1, 1}
gValues == {0, 1}
Theta2Values == {0, 1}
EpsValues == {0, 1}

theta1_0 == 1
z1_0 == 0
z2_0 == 0

RECURSIVE IncreasingFrom(_, _)
\* the strictly increasing sequences of at most n times, all above lo
IncreasingFrom(lo, n) ==
    IF n = 0 THEN {<<>>}
    ELSE {<<>>} \cup UNION {{<<a>> \o s : s \in IncreasingFrom(a, n - 1)} :
                               a \in (lo + 1)..MaxTime}

\* np.linspace(0, 100, 2000), generalised: non-empty, strictly increasing
TimeSamples == IncreasingFrom(-1, MaxLen) \ {<<>>}

\* ------------------------------------------------- the derivative callback
RECURSIVE FProd(_)
\* a left-to-right product a * b * c * ...
FProd(s) == IF Len(s) = 1 THEN s[1]
            ELSE fmul(FProd(SubSeq(s, 1, Len(s) - 1)), s[Len(s)])

\* a callback that keeps a counter between calls: what it returns depends on
\* how many calls the first run made before it
double_pendulum_derivatives_stateful(y, tt, L1, L2, m1, m2, g) ==
    [raised |-> FALSE,
     dydt |-> <<fadd(y[2], Fin(ncalls["base"])), Fin(0), y[4], Fin(0)>>]

\* def double_pendulum_derivatives(y, t, L1, L2, m1, m2, g): the result, or
\* the ZeroDivisionError of the Python-float division L2 / L1
double_pendulum_derivatives(y, tt, L1, L2, m1, m2, g) ==
    LET theta1 == y[1]
        z1 == y[2]
        theta2 == y[3]
        z2 == y[4]
        cos_delta == np_cos(fsub(theta1, theta2))
        sin_delta == np_sin(fsub(theta1, theta2))
        denominator1 == fsub(Fin((m1 + m2) * L1),
                             FProd(<<Fin(m2 * L1), cos_delta, cos_delta>>))
        denominator2 == fmul(Fin(Quot(L2, L1)), denominator1)
        num1 == fsub(fadd(fadd(
                    FProd(<<Fin(m2 * L1), z1, z1, sin_delta, cos_delta>>),
                    FProd(<<Fin(m2 * g), np_sin(theta2), cos_delta>>)),
                    FProd(<<Fin(m2 * L2), z2, z2, sin_delta>>)),
                    fmul(Fin((m1 + m2) * g), np_sin(theta1)))
        num3 == fadd(
                    FProd(<<Fin((-m2) * L2), z2, z2, sin_delta, cos_delta>>),
                    fmul(Fin(m1 + m2),
                         fsub(fsub(FProd(<<Fin(g), np_sin(theta1), cos_delta>>),
                                   FProd(<<Fin(L1), z1, z1, sin_delta>>)),
                              fmul(Fin(g), np_sin(theta2)))))
    IN  IF L1 = 0
        THEN [raised |-> TRUE, dydt |-> <<>>]
        ELSE [raised |-> FALSE,
              dydt |-> <<z1, fdiv(num1, denominator1),
                         z2, fdiv(num3, denominator2)>>]

\* dydt aliases its argument instead of being a new array
zeros_like_alias(ref) == ref

\* dydt = np.zeros_like(y): a new array, distinct from y
zeros_like(ref) == <<"dydt", ref[2]>>

\* ------------------------------------------------------------------ Init
Refs == {<<"y", r>> : r \in Runs} \cup {<<"dydt", r>> : r \in Runs}

\* y0 = [theta1_0, z1_0, theta2_0, z2_0] and y0_small, the same with
\* theta2_0 + eps
InitialStates(theta2_0, eps) ==
    [base  |-> <<Fin(theta1_0), Fin(z1_0), Fin(theta2_0), Fin(z2_0)>>,
     small |-> <<Fin(theta1_0), Fin(z1_0), Fin(theta2_0 + eps), Fin(z2_0)>>]

NoPos == [x1 |-> <<>>, y1 |-> <<>>, x2 |-> <<>>, y2 |-> <<>>]
NoArtists == [line1 |-> <<>>, line2 |-> <<>>, time_text |-> <<>>]

Init ==
    /\ args \in [L1 : L1Values, L2 : L2Values, m1 : m1Values,
                 m2 : m2Values, g : gValues]
    /\ t \in TimeSamples
    /\ \E theta2_0 \in Theta2Values, eps \in EpsValues :
          y0 = InitialStates(theta2_0, eps)
    /\ pc = "sol"
    /\ err = "none"
    /\ phase = [r \in Runs |-> "idle"]
    /\ mem = [ref \in Refs |-> <<>>]
    /\ ret = [r \in Runs |-> <<>>]
    /\ ncalls = [r \in Runs |-> 0]
    /\ yout = [r \in Runs |-> <<>>]
    /\ sol = [r \in Runs |-> <<>>]
    /\ pos = [r \in Runs |-> NoPos]
    /\ artists = NoArtists
    /\ started = FALSE
    /\ i = 0
    /\ frames = <<>>

\* ---------------------------------------------------------------- odeint
\* the statement that assigns run r's trajectory, and the stage after it
StageOf(r) == IF r = "base" THEN "sol" ELSE "sol_small"
StageAfter(r) == IF r = "base" THEN "sol_small" ELSE "project"

\* the output buffer starts zeroed instead of holding y0 in its first row
odeint_begin_zeros(r) ==
    /\ pc = StageOf(r)
    /\ phase[r] = "idle"
    /\ phase' = [phase EXCEPT ![r] = "running"]
    /\ mem' = [mem EXCEPT ![<<"y", r>>] = y0[r]]
    /\ yout' = [yout EXCEPT ![r] = <<[j \in 1..4 |-> Fin(0)]>>]
    /\ UNCHANGED <<args, t, y0, pc, err, ret, ncalls, sol,
                   pos, artists, started, i, frames>>

\* odeint(double_pendulum_derivatives, y0, t, args=...) is entered: the
\* solver copies y0 into its state and into the first output row
odeint_begin(r) ==
    /\ pc = StageOf(r)
    /\ phase[r] = "idle"
    /\ phase' = [phase EXCEPT ![r] = "running"]
    /\ mem' = [mem EXCEPT ![<<"y", r>>] = y0[r]]
    /\ yout' = [yout EXCEPT ![r] = <<y0[r]>>]
    /\ UNCHANGED <<args, t, y0, pc, err, ret, ncalls, sol,
                   pos, artists, started, i, frames>>

\* the solver calls the callback on its current state, at the time of the
\* last row produced, and keeps the array the callback returns (return dydt);
\* an exception of the callback leaves odeint and ends the cell
CallDerivative(r) ==
    /\ pc = StageOf(r)
    /\ phase[r] = "running"
    /\ Len(yout[r]) < Len(t)
    /\ ret[r] = <<>>
    /\ \E res \in {double_pendulum_derivatives(mem[<<"y", r>>],
                      t[Len(yout[r])],
                      args.L1, args.L2, args.m1, args.m2, args.g)} :
          LET out == zeros_like(<<"y", r>>)
          IN  /\ ncalls' = [ncalls EXCEPT ![r] = @ + 1]
              /\ IF res.raised
                 THEN /\ phase' = [phase EXCEPT ![r] = "raised"]
                      /\ pc' = "error"
                      /\ err' = "ZeroDivisionError"
                      /\ UNCHANGED <<mem, ret>>
                 ELSE /\ mem' = [mem EXCEPT ![out] = res.dydt]
                      /\ ret' = [ret EXCEPT ![r] = out]
                      /\ UNCHANGED <<phase, pc, err>>
    /\ UNCHANGED <<args, t, y0, yout, sol, pos, artists, started, i, frames>>

\* the solver advances its state to the next time sample and stores the row
odeint_advance(r) ==
    /\ pc = StageOf(r)
    /\ phase[r] = "running"
    /\ ret[r] # <<>>
    /\ LET k == Len(yout[r])
           h == Fin(t[k + 1] - t[k])
           y == mem[<<"y", r>>]
           d == mem[ret[r]]
           ynew == [j \in 1..4 |-> fadd(y[j], fmul(h, d[j]))]
       IN  /\ mem' = [mem EXCEPT ![<<"y", r>>] = ynew]
           /\ yout' = [yout EXCEPT ![r] = Append(@, ynew)]
    /\ ret' = [ret EXCEPT ![r] = <<>>]
    /\ UNCHANGED <<args, t, y0, pc, err, phase, ncalls, sol,
                   pos, artists, started, i, frames>>

\* the rows after the first are returned, the initial row dropped
odeint_return_tail(r) ==
    /\ pc = StageOf(r)
    /\ phase[r] = "running"
    /\ Len(yout[r]) = Len(t)
    /\ sol' = [sol EXCEPT ![r] = Tail(yout[r])]
    /\ phase' = [phase EXCEPT ![r] = "returned"]
    /\ pc' = StageAfter(r)
    /\ UNCHANGED <<args, t, y0, err, mem, ret, ncalls, yout,
                   pos, artists, started, i, frames>>

\* odeint returns its output array, which the cell assigns to sol or
\* sol_small
odeint_return(r) ==
    /\ pc = StageOf(r)
    /\ phase[r] = "running"
    /\ Len(yout[r]) = Len(t)
    /\ sol' = [sol EXCEPT ![r] = yout[r]]
    /\ phase' = [phase EXCEPT ![r] = "returned"]
    /\ pc' = StageAfter(r)
    /\ UNCHANGED <<args, t, y0, err, mem, ret, ncalls, yout,
                   pos, artists, started, i, frames>>

\* ------------------------------------------------- Cartesian conversion
\* sol[:, c] (c counted from 0)
Column(rows, c) == [j \in 1..Len(rows) |-> rows[j][c + 1]]

theta1 == Column(sol["base"], 0)
theta2 == Column(sol["base"], 2)
theta1_small == Column(sol["small"], 0)
theta2_small == Column(sol["small"], 2)

\* x1 = L1 sin(th1), y1 = -L1 cos(th1), x2 = x1 + L2 sin(th2),
\* y2 = y1 - L2 cos(th2), elementwise on two columns of one trajectory
Cartesian(th1, th2) ==
    LET x1 == [j \in 1..Len(th1) |-> fmul(Fin(args.L1), np_sin(th1[j]))]
        y1 == [j \in 1..Len(th1) |-> fmul(Fin(-args.L1), np_cos(th1[j]))]
    IN  [x1 |-> x1,
         y1 |-> y1,
         x2 |-> [j \in 1..Len(th2) |->
                    fadd(x1[j], fmul(Fin(args.L2), np_sin(th2[j])))],
         y2 |-> [j \in 1..Len(th2) |->
                    fsub(y1[j], fmul(Fin(args.L2), np_cos(th2[j])))]]

\* the conversion runs as soon as the first trajectory exists
Project_early ==
    /\ pc \in {"sol_small", "project"}
    /\ pos' = [base  |-> Cartesian(theta1, theta2),
               small |-> Cartesian(theta1_small, theta2_small)]
    /\ pc' = "animate"
    /\ UNCHANGED <<args, t, y0, err, phase, mem, ret, ncalls, yout, sol,
                   artists, started, i, frames>>

\* the cell that extracts the angles and converts them to positions
Project ==
    /\ pc = "project"
    /\ pos' = [base  |-> Cartesian(theta1, theta2),
               small |-> Cartesian(theta1_small, theta2_small)]
    /\ pc' = "animate"
    /\ UNCHANGED <<args, t, y0, err, phase, mem, ret, ncalls, yout, sol,
                   artists, started, i, frames>>

\* ------------------------------------------------------------- animation
\* time_template % t[i], 'Time = %.1fs': the time to one decimal
time_template(tv) == <<"Time = ", tv, ".", 0, "s">>

\* what animate(i) sets from the samples it is given
FrameOf(p, q, tv) ==
    [line1 |-> <<<<Fin(0), p.x1, p.x2>>, <<Fin(0), p.y1, p.y2>>>>,
     line2 |-> <<<<Fin(0), q.x1, q.x2>>, <<Fin(0), q.y1, q.y2>>>>,
     time_text |-> time_template(tv)]

\* entry n (counted from 0) of each position sequence of run r
At(r, n) == [x1 |-> pos[r].x1[n + 1], y1 |-> pos[r].y1[n + 1],
             x2 |-> pos[r].x2[n + 1], y2 |-> pos[r].y2[n + 1]]

\* whether index n (counted from 0) exists in every sequence animate reads
InRange(n) ==
    /\ n + 1 \in DOMAIN t
    /\ \A r \in Runs : /\ n + 1 \in DOMAIN pos[r].x1
                       /\ n + 1 \in DOMAIN pos[r].y1
                       /\ n + 1 \in DOMAIN pos[r].x2
                       /\ n + 1 \in DOMAIN pos[r].y2

\* def init(): the artists are emptied before the first frame
init ==
    /\ pc = "animate"
    /\ ~started
    /\ started' = TRUE
    /\ artists' = NoArtists
    /\ UNCHANGED <<args, t, y0, pc, err, phase, mem, ret, ncalls, yout, sol,
                   pos, i, frames>>

\* animate reads the entry after the one it is asked for
animate_off_by_one ==
    /\ pc = "animate"
    /\ started
    /\ i < Len(t)
    /\ IF InRange(i + 1)
       THEN /\ artists' = FrameOf(At("base", i + 1), At("small", i + 1), t[i + 2])
            /\ frames' = Append(frames, artists')
            /\ i' = i + 1
            /\ UNCHANGED <<pc, err>>
       ELSE /\ pc' = "error"
            /\ err' = "IndexError"
            /\ UNCHANGED <<artists, frames, i>>
    /\ UNCHANGED <<args, t, y0, phase, mem, ret, ncalls, yout, sol,
                   pos, started>>

\* animate reads the second pendulum one entry behind (x1_small[i - 1]; at
\* i = 0 the index -1 is the last entry)
animate_lagged ==
    /\ pc = "animate"
    /\ started
    /\ i < Len(t)
    /\ IF InRange(i)
       THEN /\ artists' = FrameOf(At("base", i),
                                  At("small", (i - 1) % Len(t)), t[i + 1])
            /\ frames' = Append(frames, artists')
            /\ i' = i + 1
            /\ UNCHANGED <<pc, err>>
       ELSE /\ pc' = "error"
            /\ err' = "IndexError"
            /\ UNCHANGED <<artists, frames, i>>
    /\ UNCHANGED <<args, t, y0, phase, mem, ret, ncalls, yout, sol,
                   pos, started>>

\* def animate(i), called by FuncAnimation for i = 0 .. len(t) - 1; the
\* frame drawn is appended to the saved animation
animate ==
    /\ pc = "animate"
    /\ started
    /\ i < Len(t)
    /\ IF InRange(i)
       THEN /\ artists' = FrameOf(At("base", i), At("small", i), t[i + 1])
            /\ frames' = Append(frames, artists')
            /\ i' = i + 1
            /\ UNCHANGED <<pc, err>>
       ELSE /\ pc' = "error"
            /\ err' = "IndexError"
            /\ UNCHANGED <<artists, frames, i>>
    /\ UNCHANGED <<args, t, y0, phase, mem, ret, ncalls, yout, sol,
                   pos, started>>

\* frames=len(t): after the last frame the animation is complete
save_done ==
    /\ pc = "animate"
    /\ started
    /\ i = Len(t)
    /\ pc' = "done"
    /\ UNCHANGED <<args, t, y0, err, phase, mem, ret, ncalls, yout, sol,
                   pos, artists, started, i, frames>>

\* --------------------------------------------------------- specification
Next ==
    \/ \E r \in Runs : odeint_begin(r)
    \/ \E r \in Runs : CallDerivative(r)
    \/ \E r \in Runs : odeint_advance(r)
    \/ \E r \in Runs : odeint_return(r)
    \/ Project
    \/ init
    \/ animate
    \/ save_done

Spec == Init /\ [][Next]_vars

\* the notebook runs its cells to the end: a step that can be taken is taken
FairSpec == Init /\ [][Next]_vars /\ WF_vars(Next)

\* ================================================================ claims
\* every physical parameter is strictly positive
ValidParams == /\ args.L1 > 0 /\ args.L2 > 0
               /\ args.m1 > 0 /\ args.m2 > 0 /\ args.g > 0

\* the configuration in which a denominator of the callback vanishes
Singular(y, L1, L2, m1, m2) ==
    LET cos_delta == np_cos(fsub(y[1], y[3]))
        denominator1 == fsub(Fin((m1 + m2) * L1),
                             FProd(<<Fin(m2 * L1), cos_delta, cos_delta>>))
    IN  denominator1 = Fin(0) \/ L1 = 0 \/ L2 = 0

Returned(r) == phase[r] = "returned"
RowFinite(r, k) == VecFinite(yout[r][k])

\* C1: with a physical parameter that is not strictly positive, the run ends
\* in an InvalidParameter error raised before integration starts: no run is
\* entered, the callback is never evaluated and no trajectory row is produced.
C1_InputValidation ==
    ~ValidParams =>
        /\ err \in {"none", "InvalidParameter"}
        /\ \A r \in Runs : /\ phase[r] = "idle"
                           /\ ncalls[r] = 0
                           /\ yout[r] = <<>>

C5_FailureSemantics ==
    /\ err # "ZeroDivisionError"
    /\ \A r \in Runs : \A k \in DOMAIN yout[r] :
          Singular(yout[r][k], args.L1, args.L2, args.m1, args.m2) =>
              \A j \in DOMAIN yout[r] : j > k => ~RowFinite(r, j)

\* C6: a call of the callback for run r (the step that counts the call)
\* leaves the state array it was given, the times, the parameters and the
\* initial states unchanged, and leaves everything of the other run, and
\* every trajectory, unchanged: it writes its own result array only.
C6_DerivativePure ==
    [][\A r \in Runs :
          ncalls'[r] # ncalls[r] =>
              /\ mem'[<<"y", r>>] = mem[<<"y", r>>]
              /\ args' = args /\ t' = t /\ y0' = y0
              /\ yout' = yout /\ sol' = sol
              /\ \A s \in Runs \ {r} :
                    /\ mem'[<<"y", s>>] = mem[<<"y", s>>]
                    /\ mem'[<<"dydt", s>>] = mem[<<"dydt", s>>]
                    /\ ncalls'[s] = ncalls[s]]_vars

\* the callback has returned a result in each of the two runs
C6_Witness ==
    /\ ncalls["base"] >= 1 /\ ncalls["small"] >= 1
    /\ mem[<<"dydt", "base">>] # <<>>
    /\ mem[<<"dydt", "small">>] # <<>>
    /\ mem[<<"dydt", "small">>] # mem[<<"y", "small">>]

\* C8: positions are computed only once both trajectories are complete, the
\* animation starts and draws only once every position is computed, and a
\* trajectory is never modified after it was returned.
C8_BatchOrder ==
    [][/\ pos' # pos =>
             \A r \in Runs : Returned(r) /\ Len(sol[r]) = Len(t)
       /\ (frames' # frames \/ started' # started) =>
             /\ pc = "animate"
             /\ pos' = pos
             /\ \A r \in Runs : Len(pos[r].x2) = Len(t)
       /\ \A r \in Runs : Returned(r) => sol'[r] = sol[r]]_vars

\* the pipeline is done: both runs, the projection and several frames
C8_Witness ==
    /\ pc = "done"
    /\ Len(frames) >= 2
    /\ \A r \in Runs : Len(pos[r].x1) = Len(t)

PointOf(yv) ==
    LET px == fmul(Fin(args.L1), np_sin(yv[1]))
        py == fmul(Fin(-args.L1), np_cos(yv[1]))
    IN  [x1 |-> px, y1 |-> py,
         x2 |-> fadd(px, fmul(Fin(args.L2), np_sin(yv[3]))),
         y2 |-> fsub(py, fmul(Fin(args.L2), np_cos(yv[3])))]

\* C10: once projected, the eight position sequences are as long as t; the
\* frame index stays within range and animate never reads a missing entry;
\* frame j is made of sample j of both trajectories and of t[j], and of
\* nothing else.
C10_FrameIndexSafety ==
    /\ err # "IndexError"
    /\ i <= Len(t) /\ Len(frames) = i
    /\ pc \in {"animate", "done"} =>
          \A r \in Runs : /\ Len(pos[r].x1) = Len(t)
                          /\ Len(pos[r].y1) = Len(t)
                          /\ Len(pos[r].x2) = Len(t)
                          /\ Len(pos[r].y2) = Len(t)
    /\ \A j \in DOMAIN frames :
          frames[j] = FrameOf(PointOf(sol["base"][j]),
                              PointOf(sol["small"][j]), t[j])

\* every frame of a run over three samples is drawn, and the last frame
\* differs from the first
C10_Witness ==
    /\ pc = "done"
    /\ Len(frames) >= 3
    /\ frames[3].line2 # frames[1].line2

====
